---- MODULE Spec2Model ----
(***************************************************************************)
(* Interval workout timer (IntervalFlow).                                  *)
(*                                                                         *)
(* Two builds of the App component are modelled side by side; the variable *)
(* `version` says which one a behaviour is about:                          *)
(*   "worker"   - the App whose ticks come from services/timerWorker.ts    *)
(*                through postMessage (unnamed/part_001);                  *)
(*   "interval" - the App whose ticks come from a setInterval owned by a   *)
(*                React effect (unnamed/part_002).                         *)
(* Both share the tick arithmetic, the cue triggers, the settings wheel,   *)
(* startSession, toggleTimer, resetTimer and the background voice load.    *)
(***************************************************************************)
EXTENDS Integers, Sequences, FiniteSets, TLC

\* ---------------------------------------------------------------- bounds
MaxMinutes  == 2    \* minutes wheel explored up to this value (code: 0..60)
MaxSeconds  == 6    \* seconds wheel explored up to this value (code: 0..59)
MaxTotal    == 6    \* the periodic timers stop firing at this many seconds
MaxInFlight == 1    \* messages in flight per direction between UI and worker
MaxWakePending == 1 \* wake-lock requests outstanding at a time
MaxPending  == 2    \* startSession calls suspended at `await ctx.resume()`

\* ------------------------------------------------------------- JS numbers
\* The result of `x % 0`; every arithmetic on it gives NaN again and every
\* `===` with it is false.  All genuine values of the model are >= 0.
NaN == 0 - 1

JsMod(a, b) == IF a = NaN \/ b = NaN \/ b = 0 THEN NaN ELSE a % b

JsSub(a, b) == IF a = NaN \/ b = NaN THEN NaN ELSE a - b

JsStrictEq(a, b) == a # NaN /\ b # NaN /\ a = b

\* ------------------------------------------------------------------ state
VARIABLES
    version,                 \* which build of App runs
    appState,                \* useState<AppState>
    settings,                \* useState<TimerSettings>
    totalSecondsElapsed,     \* useState(0)
    currentIntervalElapsed,  \* useState(0)
    cycleCount,              \* useState(1)
    audioLoadingState,       \* useState('idle')
    audioAssets,             \* useRef<AudioAssets>: label -> loaded?
    audioBatches,            \* Promise.all batches of generateVoiceAsset in flight
    audioContext,            \* state of the audioService singleton; "resuming" is
                             \* 'suspended' with a resume() promise outstanding
    pendingStarts,           \* startSession calls waiting in `await ctx.resume()`
    worker,                  \* module state of timerWorker.ts
    toWorker,                \* commands posted to the worker, not yet handled
    toUI,                    \* tick messages posted by the worker, not yet handled
    effectTimers,            \* live setInterval timers of the timer effect
                             \* (interval build)
    wakeLockRef,             \* wakeLockRef.current holds a sentinel
    wakeLockPending,         \* wakeLock.request() promises not yet settled
    orphanedSentinel,        \* a sentinel was acquired and is referenced by
                             \* nothing any more (it is never released)
    played,                  \* the sounds the last UI handler produced, in order
    cuesSinceFirstTick,      \* thresholds cued since the tick with effectiveTime 1
    cuesThisInterval         \* thresholds cued since the session started or
                             \* since the last boundary tick of the session

vars == <<version, appState, settings, totalSecondsElapsed,
          currentIntervalElapsed, cycleCount, audioLoadingState, audioAssets,
          audioBatches, audioContext, pendingStarts, worker, toWorker, toUI,
          effectTimers, wakeLockRef, wakeLockPending, orphanedSentinel,
          played, cuesSinceFirstTick, cuesThisInterval>>

timerVars == <<totalSecondsElapsed, currentIntervalElapsed, cycleCount>>

audioVars == <<audioLoadingState, audioAssets, audioBatches>>

resumeVars == <<audioContext, pendingStarts>>

wakeVars == <<wakeLockRef, wakeLockPending, orphanedSentinel>>

workerVars == <<worker, toWorker, toUI>>

cueVars == <<cuesSinceFirstTick, cuesThisInterval>>

Labels == {"five", "four", "three", "two", "one", "next"}

NoAssets == [l \in Labels |-> FALSE]

AllAssets == [l \in Labels |-> TRUE]

PRESETS == {[m |-> 1, s |-> 0], [m |-> 2, s |-> 0],
            [m |-> 5, s |-> 0], [m |-> 10, s |-> 0]}

\* Outcomes of one batch of six generateVoiceAsset calls, as the set of labels
\* whose call threw: none, one of them, all of them (no API key).
FailureCases == {{}, {"three"}, Labels}

\* timerWorker.ts after module evaluation.  Its fourth variable,
\* intervalDuration, is assigned by 'start' and 'updateDuration' and read
\* nowhere, so neither it nor the `value` of the commands is carried.
\* intervalId says whether the variable names a timer; timers counts the
\* setInterval timers of the worker that have not been cleared.
WorkerInit ==
    [intervalId |-> FALSE, timers |-> 0, totalSecondsElapsed |-> 0,
     isRunning |-> FALSE]

DurationOf(s) == (s.intervalMinutes * 60) + s.intervalSeconds

intervalDuration == DurationOf(settings)

\* ------------------------------------------------------- tick arithmetic
TimeInCurrentCycle(newTotal, D) == JsMod(newTotal, D)

\* the zero remainder left as it is (a plain modulo)
EffectiveTime_PlainModulo(newTotal, D) == TimeInCurrentCycle(newTotal, D)

EffectiveTime(newTotal, D) ==
    IF JsStrictEq(TimeInCurrentCycle(newTotal, D), 0)
    THEN D
    ELSE TimeInCurrentCycle(newTotal, D)

TimeRemaining(newTotal, D) == JsSub(D, EffectiveTime(newTotal, D))

\* audioService.playSound / playGoSound: the voice when a buffer is present,
\* else playFallbackBeep('tick') / playFallbackBeep('end')
PlaySound(buffer) == IF buffer THEN "voice" ELSE "tick"

PlayGoSound(buffer) == IF buffer THEN "voice" ELSE "end"

\* the trigger for threshold 3 left out
Triggers_SkipThree(timeRemaining, assets) ==
    (IF JsStrictEq(timeRemaining, 5)
     THEN <<[threshold |-> 5, label |-> "five", out |-> PlaySound(assets["five"])]>>
     ELSE <<>>)
    \o (IF JsStrictEq(timeRemaining, 4)
     THEN <<[threshold |-> 4, label |-> "four", out |-> PlaySound(assets["four"])]>>
     ELSE <<>>)
    \o (IF JsStrictEq(timeRemaining, 2)
     THEN <<[threshold |-> 2, label |-> "two", out |-> PlaySound(assets["two"])]>>
     ELSE <<>>)
    \o (IF JsStrictEq(timeRemaining, 1)
     THEN <<[threshold |-> 1, label |-> "one", out |-> PlaySound(assets["one"])]>>
     ELSE <<>>)
    \o (IF JsStrictEq(timeRemaining, 0)
     THEN <<[threshold |-> 0, label |-> "next", out |-> PlayGoSound(assets["next"])]>>
     ELSE <<>>)

\* `<=` written for `===`: every threshold at or above timeRemaining fires
Triggers_AtMost(timeRemaining, assets) ==
    (IF timeRemaining # NaN /\ timeRemaining <= 5
     THEN <<[threshold |-> 5, label |-> "five", out |-> PlaySound(assets["five"])]>>
     ELSE <<>>)
    \o (IF timeRemaining # NaN /\ timeRemaining <= 4
     THEN <<[threshold |-> 4, label |-> "four", out |-> PlaySound(assets["four"])]>>
     ELSE <<>>)
    \o (IF timeRemaining # NaN /\ timeRemaining <= 3
     THEN <<[threshold |-> 3, label |-> "three", out |-> PlaySound(assets["three"])]>>
     ELSE <<>>)
    \o (IF timeRemaining # NaN /\ timeRemaining <= 2
     THEN <<[threshold |-> 2, label |-> "two", out |-> PlaySound(assets["two"])]>>
     ELSE <<>>)
    \o (IF timeRemaining # NaN /\ timeRemaining <= 1
     THEN <<[threshold |-> 1, label |-> "one", out |-> PlaySound(assets["one"])]>>
     ELSE <<>>)
    \o (IF timeRemaining # NaN /\ timeRemaining <= 0
     THEN <<[threshold |-> 0, label |-> "next", out |-> PlayGoSound(assets["next"])]>>
     ELSE <<>>)

\* The six `if (timeRemaining === n)` statements of the first App of
\* App.tsx (lines 90-98): threshold 0 goes through playSound like the
\* others, not through playGoSound.  Its tick arithmetic is the one above.
AppTsxTriggers(timeRemaining, assets) ==
    (IF JsStrictEq(timeRemaining, 5)
     THEN <<[threshold |-> 5, label |-> "five", out |-> PlaySound(assets["five"])]>>
     ELSE <<>>)
    \o (IF JsStrictEq(timeRemaining, 4)
     THEN <<[threshold |-> 4, label |-> "four", out |-> PlaySound(assets["four"])]>>
     ELSE <<>>)
    \o (IF JsStrictEq(timeRemaining, 3)
     THEN <<[threshold |-> 3, label |-> "three", out |-> PlaySound(assets["three"])]>>
     ELSE <<>>)
    \o (IF JsStrictEq(timeRemaining, 2)
     THEN <<[threshold |-> 2, label |-> "two", out |-> PlaySound(assets["two"])]>>
     ELSE <<>>)
    \o (IF JsStrictEq(timeRemaining, 1)
     THEN <<[threshold |-> 1, label |-> "one", out |-> PlaySound(assets["one"])]>>
     ELSE <<>>)
    \o (IF JsStrictEq(timeRemaining, 0)
     THEN <<[threshold |-> 0, label |-> "next", out |-> PlaySound(assets["next"])]>>
     ELSE <<>>)

\* the six `if (timeRemaining === n)` statements, in source order
Triggers(timeRemaining, assets) ==
    (IF JsStrictEq(timeRemaining, 5)
     THEN <<[threshold |-> 5, label |-> "five", out |-> PlaySound(assets["five"])]>>
     ELSE <<>>)
    \o (IF JsStrictEq(timeRemaining, 4)
     THEN <<[threshold |-> 4, label |-> "four", out |-> PlaySound(assets["four"])]>>
     ELSE <<>>)
    \o (IF JsStrictEq(timeRemaining, 3)
     THEN <<[threshold |-> 3, label |-> "three", out |-> PlaySound(assets["three"])]>>
     ELSE <<>>)
    \o (IF JsStrictEq(timeRemaining, 2)
     THEN <<[threshold |-> 2, label |-> "two", out |-> PlaySound(assets["two"])]>>
     ELSE <<>>)
    \o (IF JsStrictEq(timeRemaining, 1)
     THEN <<[threshold |-> 1, label |-> "one", out |-> PlaySound(assets["one"])]>>
     ELSE <<>>)
    \o (IF JsStrictEq(timeRemaining, 0)
     THEN <<[threshold |-> 0, label |-> "next", out |-> PlayGoSound(assets["next"])]>>
     ELSE <<>>)

\* the increment moved to the last second before the boundary
CycleAfter_OnLastSecond(timeRemaining, c) ==
    IF JsStrictEq(timeRemaining, 1) THEN c + 1 ELSE c

\* the boundary tick leaving the cycle counter alone
CycleAfter_Never(timeRemaining, c) == c

\* setCycleCount(c => c + 1) inside `if (timeRemaining === 0)`
CycleAfter(timeRemaining, c) ==
    IF JsStrictEq(timeRemaining, 0) THEN c + 1 ELSE c

\* the display never wrapped back to 0
ElapsedAfter_NoWrap(effectiveTime, D) == effectiveTime

\* setCurrentIntervalElapsed(effectiveTime === intervalDuration ? 0 : effectiveTime)
ElapsedAfter(effectiveTime, D) ==
    IF JsStrictEq(effectiveTime, D) THEN 0 ELSE effectiveTime

ThresholdsOf(sounds) == [i \in 1..Len(sounds) |-> sounds[i].threshold]

\* The body shared by worker.onmessage (type 'tick') and the setInterval
\* callback: everything that follows the computation of newTotal.
ApplyTick(newTotal) ==
    LET D  == intervalDuration
        eff == EffectiveTime(newTotal, D)
        rem == TimeRemaining(newTotal, D)
        sounds == Triggers(rem, audioAssets)
    IN  /\ totalSecondsElapsed' = newTotal
        /\ played' = sounds
        /\ cycleCount' = CycleAfter(rem, cycleCount)
        /\ currentIntervalElapsed' = ElapsedAfter(eff, D)
        /\ cuesSinceFirstTick' =
              (IF eff = 1 THEN <<>> ELSE cuesSinceFirstTick) \o ThresholdsOf(sounds)
        /\ cuesThisInterval' =
              (IF cuesThisInterval # <<>>
                  /\ cuesThisInterval[Len(cuesThisInterval)] = 0
               THEN <<>> ELSE cuesThisInterval) \o ThresholdsOf(sounds)

\* ------------------------------------------------------------------- Init
Init ==
    /\ version \in {"worker", "interval"}
    /\ appState = "IDLE"
    /\ settings = [intervalMinutes |-> 2, intervalSeconds |-> 0]
    /\ totalSecondsElapsed = 0
    /\ currentIntervalElapsed = 0
    /\ cycleCount = 1
    /\ audioLoadingState = "idle"
    /\ audioAssets = NoAssets
    /\ audioBatches = 0
    /\ audioContext \in {"suspended", "running"}
    /\ pendingStarts = <<>>
    /\ worker = WorkerInit
    /\ toWorker = <<>>
    /\ toUI = <<>>
    /\ effectTimers = 0
    /\ wakeLockRef = FALSE
    /\ wakeLockPending = 0
    /\ orphanedSentinel = FALSE
    /\ played = <<>>
    /\ cuesSinceFirstTick = <<>>
    /\ cuesThisInterval = <<>>

\* const timeLeftInInterval = intervalDuration - currentIntervalElapsed
timeLeftInInterval == JsSub(intervalDuration, currentIntervalElapsed)

\* ------------------------------------------------------------ UI actions
\* the timer created only once the voice assets are ready
TimerEffect_AwaitsVoice(live, phase) ==
    (IF live > 0 THEN live - 1 ELSE 0)
        + (IF phase = "RUNNING" /\ audioLoadingState = "ready" THEN 1 ELSE 0)

\* useEffect(..., [appState, intervalDuration]) of the interval build, run
\* again for a render with appState = phase: the cleanup of the previous run
\* clears the timer that run created, then a timer is created if RUNNING.
\* `live` is the number of timers alive before.
TimerEffect(live, phase) ==
    (IF live > 0 THEN live - 1 ELSE 0) + (IF phase = "RUNNING" THEN 1 ELSE 0)

\* React runs the effect again when one of its dependencies changed.
RunTimerEffect(newPhase, newSettings) ==
    effectTimers' =
        IF /\ version = "interval"
           /\ (newPhase # appState \/ DurationOf(newSettings) # intervalDuration)
        THEN TimerEffect(effectTimers, newPhase)
        ELSE effectTimers

\* useEffect(..., [intervalDuration]) of the worker build: a changed duration
\* terminates the worker (dropping what is in flight) and creates a fresh one.
WorkerEffect(newSettings) ==
    IF version = "worker" /\ DurationOf(newSettings) # intervalDuration
    THEN /\ worker' = WorkerInit
         /\ toWorker' = <<>>
         /\ toUI' = <<>>
    ELSE UNCHANGED workerVars

\* playTickSound, as far as the audio context goes: a suspended context is
\* asked to resume, and the call does not wait for it.
PlayTickSound ==
    IF audioContext = "suspended" THEN "resuming" ELSE audioContext

\* useEffect(..., [appState]) managing the screen wake lock, run again for
\* a render with appState = newPhase.  The cleanup of the previous run calls
\* releaseWakeLock, which releases the sentinel wakeLockRef.current names,
\* if any, and nulls the ref; then a RUNNING phase calls requestWakeLock,
\* which returns at its await with the request outstanding, and any other
\* phase calls releaseWakeLock again.  At most MaxWakePending requests are
\* followed at a time: one made beyond that is taken in its rejected
\* outcome, which leaves no trace.
RunWakeLockEffect(newPhase) ==
    IF newPhase = appState
    THEN UNCHANGED wakeVars
    ELSE /\ wakeLockRef' = FALSE
         /\ wakeLockPending' =
                IF newPhase = "RUNNING" /\ wakeLockPending < MaxWakePending
                THEN wakeLockPending + 1
                ELSE wakeLockPending
         /\ UNCHANGED orphanedSentinel

\* requestWakeLock after its await: the request was granted and the
\* sentinel is stored in wakeLockRef.current, whatever appState is by now
\* and whatever the ref held; or it was rejected and the catch leaves the
\* ref alone.
WakeLockSettled(granted) ==
    /\ wakeLockPending > 0
    /\ wakeLockPending' = wakeLockPending - 1
    /\ wakeLockRef' = (granted \/ wakeLockRef)
    /\ orphanedSentinel' = (orphanedSentinel \/ (granted /\ wakeLockRef))
    /\ UNCHANGED <<version, appState, settings, timerVars, audioVars,
                   resumeVars, workerVars, effectTimers, played, cueVars>>

\* WheelColumn.handleChange through the onChange of the MIN / SEC column.
\* The wheel is rendered in the IDLE view only.  The seconds are explored
\* with the minutes at 0: a duration of a minute or more gives no cue and no
\* boundary within MaxTotal ticks, whatever its seconds.
WheelChange(field, dir) ==
    LET next == settings[field] + dir
        range == IF field = "intervalMinutes" THEN 61 ELSE 60
        bound == IF field = "intervalMinutes" THEN MaxMinutes ELSE MaxSeconds
        newSettings == [settings EXCEPT ![field] = next]
    IN  /\ appState = "IDLE"
        /\ next >= 0 /\ next < range
        /\ next <= bound
        /\ newSettings.intervalMinutes = 0 \/ newSettings.intervalSeconds = 0
        /\ settings' = newSettings
        /\ WorkerEffect(newSettings)
        /\ RunTimerEffect(appState, newSettings)
        /\ audioContext' = PlayTickSound
        /\ played' = <<>>
        /\ cuesSinceFirstTick' = <<>>
        /\ cuesThisInterval' = <<>>
        /\ UNCHANGED <<version, appState, timerVars, audioVars, pendingStarts,
                       wakeVars>>

\* A Quick Preset button of the IDLE view.
SelectPreset(p) ==
    LET newSettings == [intervalMinutes |-> p.m, intervalSeconds |-> p.s]
    IN  /\ appState = "IDLE"
        /\ p.m <= MaxMinutes
        /\ settings' = newSettings
        /\ WorkerEffect(newSettings)
        /\ RunTimerEffect(appState, newSettings)
        /\ played' = <<>>
        /\ cuesSinceFirstTick' = <<>>
        /\ cuesThisInterval' = <<>>
        /\ UNCHANGED <<version, appState, timerVars, audioVars, resumeVars,
                       wakeVars>>

\* What a startSession call keeps of the render it was created in: the
\* audioLoadingState its loadAudioInBackground will test, reduced to the
\* outcome of that test (`ready` or `loading` returns at once).
Closure ==
    [returnsEarly |-> audioLoadingState = "ready" \/ audioLoadingState = "loading"]

\* loadAudioInBackground up to its await: does the call start a batch of
\* six requests?
StartsBatch(c) == ~c.returnsEarly

BatchesStarted(calls) == Cardinality({i \in 1..Len(calls) : StartsBatch(calls[i])})

\* startSession after `await ctx.resume()`, once for each call of `calls`,
\* back to back: setAppState(RUNNING), the 'start' command, and
\* loadAudioInBackground.  The duration is not looked at.
StartBody(calls) ==
    /\ appState' = "RUNNING"
    /\ RunTimerEffect("RUNNING", settings)
    /\ RunWakeLockEffect("RUNNING")
    /\ IF version = "worker"
       THEN /\ Len(toWorker) + Len(calls) <= MaxInFlight
            /\ toWorker' = toWorker \o [i \in 1..Len(calls) |-> [command |-> "start"]]
            /\ UNCHANGED <<worker, toUI>>
       ELSE UNCHANGED workerVars
    /\ IF BatchesStarted(calls) > 0
       THEN /\ audioLoadingState' = "loading"
            /\ audioBatches' = audioBatches + BatchesStarted(calls)
            /\ UNCHANGED audioAssets
       ELSE UNCHANGED audioVars
    /\ cuesThisInterval' = <<>>
    /\ played' = <<>>
    /\ UNCHANGED <<version, settings, timerVars, cuesSinceFirstTick>>

\* The Start Workout button (IDLE view) with the audio context running.
StartSession ==
    /\ appState = "IDLE"
    /\ audioContext = "running"
    /\ StartBody(<<Closure>>)
    /\ UNCHANGED resumeVars

\* The Start Workout button with the audio context suspended: the call
\* waits in `await ctx.resume()` and the IDLE view stays up.
StartSessionSuspend ==
    /\ appState = "IDLE"
    /\ audioContext # "running"
    /\ Len(pendingStarts) < MaxPending
    /\ audioContext' = "resuming"
    /\ pendingStarts' = Append(pendingStarts, Closure)
    /\ played' = <<>>
    /\ UNCHANGED <<version, appState, settings, timerVars, audioVars,
                   workerVars, effectTimers, wakeVars, cueVars>>

\* The audio context resumed (the source never suspends it again): it
\* resolves every pending resume promise in one task, so the waiting
\* startSession calls continue back to back.
AudioContextResumed ==
    /\ audioContext = "resuming"
    /\ audioContext' = "running"
    /\ pendingStarts' = <<>>
    /\ IF pendingStarts # <<>>
       THEN StartBody(pendingStarts)
       ELSE UNCHANGED <<version, appState, settings, timerVars, audioVars,
                        workerVars, effectTimers, wakeVars, played,
                        cueVars>>

\* a toggle that leaves a paused session instead of resuming it
Toggled_LeavesSession(phase) == IF phase = "RUNNING" THEN "PAUSED" ELSE "IDLE"

\* toggleTimer: RUNNING becomes PAUSED, anything else becomes RUNNING
Toggled(phase) == IF phase = "RUNNING" THEN "PAUSED" ELSE "RUNNING"

\* The play/pause button; it is rendered in the timer view only.
ToggleTimer ==
    /\ appState # "IDLE"
    /\ appState' = Toggled(appState)
    /\ RunTimerEffect(Toggled(appState), settings)
    /\ RunWakeLockEffect(Toggled(appState))
    /\ IF version = "worker"
       THEN /\ Len(toWorker) < MaxInFlight
            /\ toWorker' = Append(toWorker,
                  IF appState = "RUNNING"
                  THEN [command |-> "pause"]
                  ELSE [command |-> "start"])
            /\ UNCHANGED <<worker, toUI>>
       ELSE UNCHANGED workerVars
    /\ played' = <<>>
    /\ UNCHANGED <<version, settings, timerVars, audioVars, resumeVars, cueVars>>

\* The four useState values the timer is made of, as one record.
TimerState ==
    [appState |-> appState,
     totalSecondsElapsed |-> totalSecondsElapsed,
     currentIntervalElapsed |-> currentIntervalElapsed,
     cycleCount |-> cycleCount]

\* resetTimer with setCycleCount(1) left out
AfterResetTimer_KeepsCycle(ts) ==
    [ts EXCEPT !.appState = "IDLE",
               !.totalSecondsElapsed = 0,
               !.currentIntervalElapsed = 0]

\* resetTimer, as far as the four useState values go: it tests nothing.
AfterResetTimer(ts) ==
    [ts EXCEPT !.appState = "IDLE",
               !.totalSecondsElapsed = 0,
               !.currentIntervalElapsed = 0,
               !.cycleCount = 1]

\* The reset button; it is rendered in the timer view only.
ResetTimer ==
    /\ appState # "IDLE"
    /\ appState' = AfterResetTimer(TimerState).appState
    /\ RunTimerEffect(AfterResetTimer(TimerState).appState, settings)
    /\ RunWakeLockEffect(AfterResetTimer(TimerState).appState)
    /\ IF version = "worker"
       THEN /\ Len(toWorker) < MaxInFlight
            /\ toWorker' = Append(toWorker, [command |-> "reset"])
            /\ UNCHANGED <<worker, toUI>>
       ELSE UNCHANGED workerVars
    /\ totalSecondsElapsed' = AfterResetTimer(TimerState).totalSecondsElapsed
    /\ currentIntervalElapsed' = AfterResetTimer(TimerState).currentIntervalElapsed
    /\ cycleCount' = AfterResetTimer(TimerState).cycleCount
    /\ cuesThisInterval' = <<>>
    /\ played' = <<>>
    /\ UNCHANGED <<version, settings, audioVars, resumeVars, cuesSinceFirstTick>>

\* Promise.all over the six generateVoiceAsset calls settles: `failed` are
\* the labels whose call threw.
AudioSettled(failed) ==
    /\ audioBatches > 0
    /\ audioBatches' = audioBatches - 1
    /\ IF failed = {}
       THEN /\ audioAssets' = AllAssets
            /\ audioLoadingState' = "ready"
       ELSE /\ audioLoadingState' = "failed"
            /\ UNCHANGED audioAssets
    /\ played' = <<>>
    /\ UNCHANGED <<version, appState, settings, timerVars, resumeVars,
                   workerVars, effectTimers, wakeVars, cueVars>>

\* -------------------------------------------------------- worker build
\* clearInterval(intervalId); intervalId = undefined
ClearInterval(w) ==
    [w EXCEPT !.timers = IF w.intervalId THEN @ - 1 ELSE @,
              !.intervalId = FALSE]

\* the 'start' branch without its `if (!isRunning)`
WorkerStart_Unguarded(w) ==
    [w EXCEPT !.isRunning = TRUE, !.intervalId = TRUE, !.timers = @ + 1]

\* the 'start' branch of self.onmessage
WorkerStart(w) ==
    IF ~w.isRunning
    THEN [w EXCEPT !.isRunning = TRUE, !.intervalId = TRUE, !.timers = @ + 1]
    ELSE w

\* the 'pause' branch zeroing the counter as 'reset' does
WorkerPause_Zeroes(w) ==
    IF w.isRunning
    THEN [ClearInterval(w) EXCEPT !.isRunning = FALSE, !.totalSecondsElapsed = 0]
    ELSE w

\* the 'pause' branch of self.onmessage
WorkerPause(w) ==
    IF w.isRunning
    THEN [ClearInterval(w) EXCEPT !.isRunning = FALSE]
    ELSE w

\* the 'reset' branch flipping isRunning instead of clearing it
WorkerReset_Flips(w) ==
    [ClearInterval(w) EXCEPT !.isRunning = ~w.isRunning, !.totalSecondsElapsed = 0]

\* the 'reset' branch of self.onmessage
WorkerReset(w) ==
    [ClearInterval(w) EXCEPT !.isRunning = FALSE, !.totalSecondsElapsed = 0]

\* timerWorker.ts self.onmessage: the module state w after the command msg
WorkerHandle(w, msg) ==
    CASE msg.command = "start" -> WorkerStart(w)
      [] msg.command = "pause" -> WorkerPause(w)
      [] msg.command = "reset" -> WorkerReset(w)
      [] OTHER -> w

\* timerWorker.ts self.onmessage, run for the oldest command in flight
WorkerOnMessage ==
    /\ version = "worker"
    /\ toWorker # <<>>
    /\ worker' = WorkerHandle(worker, Head(toWorker))
    /\ toWorker' = Tail(toWorker)
    /\ UNCHANGED <<version, appState, settings, timerVars, audioVars,
                   resumeVars, toUI, effectTimers, wakeVars, played,
                   cueVars>>

\* the setInterval callback of the worker
WorkerIntervalFire ==
    /\ version = "worker"
    /\ worker.timers > 0
    /\ worker.totalSecondsElapsed < MaxTotal
    /\ Len(toUI) < MaxInFlight
    /\ worker' = [worker EXCEPT !.totalSecondsElapsed = @ + 1]
    /\ toUI' = Append(toUI, [type |-> "tick",
                             totalSecondsElapsed |-> worker.totalSecondsElapsed + 1])
    /\ UNCHANGED <<version, appState, settings, timerVars, audioVars,
                   resumeVars, toWorker, effectTimers, wakeVars, played,
                   cueVars>>

\* worker.onmessage of the App: applies the tick whatever appState is
UiOnTick ==
    /\ version = "worker"
    /\ toUI # <<>>
    /\ ApplyTick(Head(toUI).totalSecondsElapsed)
    /\ toUI' = Tail(toUI)
    /\ UNCHANGED <<version, appState, settings, audioVars, resumeVars,
                   worker, toWorker, effectTimers, wakeVars>>

\* ------------------------------------------------------ interval build
\* the setInterval callback of the timer effect, alive while RUNNING
IntervalFire ==
    /\ version = "interval"
    /\ effectTimers > 0
    /\ totalSecondsElapsed < MaxTotal
    /\ ApplyTick(totalSecondsElapsed + 1)
    /\ UNCHANGED <<version, appState, settings, audioVars, resumeVars,
                   workerVars, effectTimers, wakeVars>>

Next ==
    \/ \E f \in {"intervalMinutes", "intervalSeconds"}, d \in {1, 0 - 1} : WheelChange(f, d)
    \/ \E p \in PRESETS : SelectPreset(p)
    \/ StartSession
    \/ StartSessionSuspend
    \/ AudioContextResumed
    \/ ToggleTimer
    \/ ResetTimer
    \/ \E failed \in FailureCases : AudioSettled(failed)
    \/ WorkerOnMessage
    \/ WorkerIntervalFire
    \/ UiOnTick
    \/ IntervalFire
    \/ \E granted \in BOOLEAN : WakeLockSettled(granted)

Spec == Init /\ [][Next]_vars

\* When the UI thread has a tick message to handle: the guard of UiOnTick.
UiOnTickReady == version = "worker" /\ toUI # <<>>

\* the readiness predicate is the enabling condition of the step
UiOnTickReadyIsEnabled == UiOnTickReady = ENABLED <<UiOnTick>>_vars

\* The event loops of the UI thread and of the worker run every task that
\* stays ready: a live setInterval timer fires again, and a posted message
\* is handled.  This is weak fairness of each of the four steps; for
\* UiOnTick it is written out with the enabling condition of the step (a
\* step that stays ready from some point on is taken again and again).
TickFairness ==
    /\ WF_vars(IntervalFire)
    /\ WF_vars(WorkerIntervalFire)
    /\ WF_vars(WorkerOnMessage)
    /\ []<>~UiOnTickReady \/ []<><<UiOnTick>>_vars

LiveSpec == Spec /\ TickFairness

\* ================================================================ claims
\* A tick is applied by the UI thread (either build).
TickStep == UiOnTick \/ IntervalFire

\* the sequence n, n-1, ..., 0
Descending(n) == [i \in 1..(n + 1) |-> n + 1 - i]

Min(a, b) == IF a <= b THEN a ELSE b

NoRepeats(seq) == \A i, j \in 1..Len(seq) : seq[i] = seq[j] => i = j

\* The last UI handler was a tick that played the Next/Go cue.
BoundaryCuePlayed == played # <<>> /\ played[Len(played)].threshold = 0

\* C1: for every duration D >= 1 a tick raises cycleCount by exactly 1 when
\* the new totalSecondsElapsed is a positive multiple of D, and leaves it
\* unchanged on every other tick.
C1_CycleCountStep ==
    [][(TickStep /\ intervalDuration >= 1) =>
         cycleCount' = cycleCount +
            (IF totalSecondsElapsed' > 0
                /\ totalSecondsElapsed' % intervalDuration = 0 THEN 1 ELSE 0)]_vars

C1_Witness ==
    /\ intervalDuration = 3
    /\ totalSecondsElapsed = 6
    /\ cycleCount = 3

\* C2: a start with duration <= 0 is rejected: the phase never becomes
\* RUNNING with a duration below 1.
C2_StartRejected == appState = "RUNNING" => intervalDuration >= 1

\* C3: no tick changes timer state or emits a cue while the phase is PAUSED.
C3_NoTickWhilePaused == [][TickStep => appState # "PAUSED"]_vars

\* C4: once reset has run, totalSecondsElapsed, currentIntervalElapsed and
\* cycleCount stay at 0, 0 and 1 and no cue is emitted until the next start.
C4_IdleStaysReset ==
    appState = "IDLE" =>
        /\ totalSecondsElapsed = 0
        /\ currentIntervalElapsed = 0
        /\ cycleCount = 1
        /\ played = <<>>

\* C5: while the phase stays PAUSED the timer state is frozen, and a tick
\* applied on top of a non-zero total continues from it (4 gives 5, never 1).
C5_FrozenWhilePaused ==
    [][/\ (appState = "PAUSED" /\ appState' = "PAUSED") => UNCHANGED timerVars
       /\ (TickStep /\ totalSecondsElapsed > 0) =>
              totalSecondsElapsed' = totalSecondsElapsed + 1]_vars

\* C6: whenever the phase goes from IDLE to RUNNING the session starts with
\* totalSecondsElapsed = 0, currentIntervalElapsed = 0 and cycleCount = 1.
C6_FreshSession ==
    [][(appState = "IDLE" /\ appState' = "RUNNING") =>
          /\ totalSecondsElapsed' = 0
          /\ currentIntervalElapsed' = 0
          /\ cycleCount' = 1]_vars

CueOf(threshold) ==
    CASE threshold = 5 -> "five" [] threshold = 4 -> "four"
      [] threshold = 3 -> "three" [] threshold = 2 -> "two"
      [] threshold = 1 -> "one" [] threshold = 0 -> "next"

\* C8: on each tick a cue is emitted if and only if D minus the normalised
\* time in cycle is in {5,4,3,2,1,0}; it is the cue mapped to that value, and
\* no tick emits more than one cue.
C8_OneCueIffThreshold ==
    [][TickStep =>
        LET D == intervalDuration
            t == totalSecondsElapsed'
            remaining == D - (IF t % D = 0 THEN D ELSE t % D)
        IN  IF D >= 1 /\ remaining \in 0..5
            THEN /\ Len(played') = 1
                 /\ played'[1].threshold = remaining
                 /\ played'[1].label = CueOf(remaining)
            ELSE played' = <<>>]_vars

C8_Witness ==
    /\ Len(played) = 1
    /\ played[1].label = "five"
    /\ intervalDuration - currentIntervalElapsed = 5

\* C9: within one interval of a session each threshold cue is emitted at
\* most once.
C9_CueOncePerInterval == NoRepeats(cuesThisInterval)

\* C10: after every tick with D >= 1 the normalised time in cycle lies in
\* 0..D and timeRemaining lies in 0..D-1, being 0 exactly on boundary ticks.
C10_EffectiveTimeRange ==
    [][(TickStep /\ intervalDuration >= 1) =>
        LET D == intervalDuration
            effective == EffectiveTime(totalSecondsElapsed', D)
            remaining == TimeRemaining(totalSecondsElapsed', D)
        IN  /\ 0 <= effective /\ effective <= D
            /\ 0 <= remaining /\ remaining <= D - 1
            /\ remaining = 0 <=> totalSecondsElapsed' % D = 0]_vars

C10_Witness ==
    /\ intervalDuration = 4
    /\ totalSecondsElapsed = 4
    /\ currentIntervalElapsed = 0
    /\ cycleCount = 2

\* C11: after every tick with D >= 1 currentIntervalElapsed is the new total
\* modulo D, i.e. the normalised time in cycle with the full interval shown
\* as 0; it is 0 exactly on the ticks whose total is a positive multiple of
\* D, and those are the ticks with timeRemaining 0 and a cycleCount increment.
C11_ElapsedResetsOnBoundary ==
    [][(TickStep /\ intervalDuration >= 1) =>
        LET D == intervalDuration
            t == totalSecondsElapsed'
            boundary == t > 0 /\ t % D = 0
        IN  /\ currentIntervalElapsed' =
                  (IF boundary THEN 0 ELSE EffectiveTime(t, D))
            /\ currentIntervalElapsed' = t % D
            /\ boundary <=> currentIntervalElapsed' = 0
            /\ boundary <=> TimeRemaining(t, D) = 0
            /\ boundary <=> cycleCount' = cycleCount + 1]_vars

C11_Witness ==
    /\ BoundaryCuePlayed
    /\ intervalDuration = 5
    /\ totalSecondsElapsed = 5
    /\ currentIntervalElapsed = 0
    /\ cycleCount = 2

\* The worker handles a 'reset' command.
WorkerResetStep == WorkerOnMessage /\ Head(toWorker).command = "reset"

\* C12: resetTimer tests no phase and leaves appState = IDLE,
\* totalSecondsElapsed = 0, currentIntervalElapsed = 0 and cycleCount = 1 from
\* RUNNING as from PAUSED (and would from IDLE); the worker's 'reset' branch
\* leaves its timer cleared, isRunning false and its counter at 0; and the
\* timer of the interval build cannot fire in IDLE.
C12_ResetFromEveryPhase ==
    [][/\ ResetTimer =>
            /\ appState' = "IDLE"
            /\ totalSecondsElapsed' = 0
            /\ currentIntervalElapsed' = 0
            /\ cycleCount' = 1
       /\ \A phase \in {"RUNNING", "PAUSED", "IDLE"} :
            AfterResetTimer([TimerState EXCEPT !.appState = phase]) =
               [appState |-> "IDLE", totalSecondsElapsed |-> 0,
                currentIntervalElapsed |-> 0, cycleCount |-> 1]
       /\ WorkerResetStep => worker' = WorkerInit
       /\ (IntervalFire /\ version = "interval") => appState = "RUNNING"]_vars

\* a session that played cues was reset, and the worker has handled it
C12_Witness ==
    /\ version = "worker"
    /\ appState = "IDLE"
    /\ cuesSinceFirstTick # <<>>
    /\ totalSecondsElapsed = 0
    /\ currentIntervalElapsed = 0
    /\ cycleCount = 1
    /\ worker = WorkerInit
    /\ toWorker = <<>>
    /\ toUI = <<>>

\* the worker's module state after it has handled the commands cmds in order
RECURSIVE WorkerDrain(_, _)
WorkerDrain(w, cmds) ==
    IF cmds = <<>> THEN w
    ELSE WorkerDrain(WorkerHandle(w, Head(cmds)), Tail(cmds))

\* C13: from every reachable state, reset applied twice in a row gives the
\* same phase, totalSecondsElapsed, currentIntervalElapsed and cycleCount as
\* reset applied once, and the worker, once it has handled what was posted,
\* has the same counter and running flag after two 'reset' commands as after
\* one.
C13_ResetIdempotent ==
    LET reset == [command |-> "reset"]
        once == AfterResetTimer(TimerState)
        workerOnce == WorkerDrain(worker, Append(toWorker, reset))
        workerTwice == WorkerDrain(worker, toWorker \o <<reset, reset>>)
    IN  /\ AfterResetTimer(once) = once
        /\ workerTwice = workerOnce

\* a paused session in its second interval whose 'pause' the worker has not
\* handled yet: reset changes every part of the timer state
C13_Witness ==
    /\ version = "worker"
    /\ appState = "PAUSED"
    /\ totalSecondsElapsed = 4
    /\ cycleCount = 2
    /\ worker.isRunning
    /\ worker.totalSecondsElapsed >= 4
    /\ toWorker = <<[command |-> "pause"]>>

\* The pause button: toggleTimer pressed while RUNNING.
PauseStep == ToggleTimer /\ appState = "RUNNING"

\* The worker handles a 'pause' command.
WorkerPauseStep == WorkerOnMessage /\ Head(toWorker).command = "pause"

\* C14: the pause action takes appState from RUNNING to PAUSED and leaves
\* totalSecondsElapsed, currentIntervalElapsed, cycleCount, the settings (so
\* the interval duration) and the audio assets as they were; in the worker
\* build it posts 'pause', and the worker handling it clears its timer and
\* keeps its counter; the timer of the interval build fires in RUNNING only.
C14_PauseFrame ==
    [][/\ PauseStep =>
            /\ appState' = "PAUSED"
            /\ UNCHANGED <<timerVars, settings, audioAssets, audioLoadingState>>
            /\ version = "worker" =>
                  /\ toWorker' = Append(toWorker, [command |-> "pause"])
                  /\ UNCHANGED <<worker, toUI>>
       /\ WorkerPauseStep =>
            /\ ~worker'.isRunning
            /\ ~worker'.intervalId
            /\ worker'.totalSecondsElapsed = worker.totalSecondsElapsed
            /\ UNCHANGED <<appState, timerVars, settings, audioAssets>>
       /\ IntervalFire => appState # "PAUSED"]_vars

\* a session paused at 3 seconds with the voices loaded, the worker stopped
\* at the same count and nothing in flight
C14_Witness ==
    /\ version = "worker"
    /\ appState = "PAUSED"
    /\ totalSecondsElapsed = 3
    /\ worker = [WorkerInit EXCEPT !.totalSecondsElapsed = 3]
    /\ audioAssets = AllAssets
    /\ toWorker = <<>>
    /\ toUI = <<>>

WorkerCommands ==
    {[command |-> c] : c \in {"start", "pause", "reset", "updateDuration"}}

\* the worker w holds at most one uncleared setInterval timer, the one
\* intervalId names, and it holds one exactly while isRunning
OneWorkerTimer(w) ==
    /\ w.timers <= 1
    /\ w.timers = (IF w.intervalId THEN 1 ELSE 0)
    /\ w.intervalId = w.isRunning

\* C16: at most one periodic timer is alive at any time.  In the worker
\* build the worker holds at most one uncleared setInterval timer, and
\* whatever command it handles next leaves it so, a 'start' while it is
\* running included (hence so does every sequence of commands).  In the interval build the effect holds at most one timer, and
\* it holds one exactly while the phase is RUNNING.
C16_SingleTimer ==
    /\ OneWorkerTimer(worker)
    /\ \A cmd \in WorkerCommands : OneWorkerTimer(WorkerHandle(worker, cmd))
    /\ effectTimers <= 1
    /\ \A phase \in {"IDLE", "RUNNING", "PAUSED"} :
          TimerEffect(effectTimers, phase) <= 1
    /\ version = "interval" =>
          effectTimers = (IF appState = "RUNNING" THEN 1 ELSE 0)
    /\ version = "worker" => effectTimers = 0

\* a session that ticked, was reset and started again: one timer is alive
C16_Witness ==
    /\ version = "worker"
    /\ appState = "RUNNING"
    /\ cuesSinceFirstTick # <<>>
    /\ worker.isRunning
    /\ worker.timers = 1
    /\ worker.totalSecondsElapsed = 0
    /\ totalSecondsElapsed = 0
    /\ toWorker = <<>>
    /\ toUI = <<>>


\* C17: when a batch of voice generation settles with only some of the six
\* labels failed, every label that did not fail has its generated voice
\* asset from then on (so that only the failed labels fall back to tones).
C17_PartialFallback ==
    [][\A failed \in FailureCases :
          AudioSettled(failed) =>
              \A l \in Labels \ failed : audioAssets'[l]]_vars


\* The timer state a tick carrying newTotal leaves, from the timer state ts
\* and the duration D alone.
TimerAfterTick(ts, newTotal, D) ==
    [appState |-> ts.appState,
     totalSecondsElapsed |-> newTotal,
     currentIntervalElapsed |-> ElapsedAfter(EffectiveTime(newTotal, D), D),
     cycleCount |-> CycleAfter(TimeRemaining(newTotal, D), ts.cycleCount)]

\* Whether each timer event can happen, told from the timer side alone
\* (phase, totals, worker and its queues): nothing about voice generation or
\* the wake lock enters.
TimerEventsNotBlocked ==
    IF version = "interval"
    THEN /\ ENABLED IntervalFire <=>
               (appState = "RUNNING" /\ totalSecondsElapsed < MaxTotal)
         /\ ENABLED ToggleTimer <=> appState # "IDLE"
         /\ ENABLED ResetTimer <=> appState # "IDLE"
         /\ ENABLED StartSession <=>
               (appState = "IDLE" /\ audioContext = "running")
    ELSE /\ ENABLED UiOnTick <=> toUI # <<>>
         /\ ENABLED WorkerIntervalFire <=>
               /\ worker.isRunning
               /\ worker.totalSecondsElapsed < MaxTotal
               /\ Len(toUI) < MaxInFlight
         /\ ENABLED WorkerOnMessage <=> toWorker # <<>>
         /\ ENABLED ToggleTimer <=>
               (appState # "IDLE" /\ Len(toWorker) < MaxInFlight)
         /\ ENABLED ResetTimer <=>
               (appState # "IDLE" /\ Len(toWorker) < MaxInFlight)
         /\ ENABLED StartSession <=>
               /\ appState = "IDLE"
               /\ audioContext = "running"
               /\ Len(toWorker) < MaxInFlight

\* Steps of which every reachable state has at least one: a change of the
\* settings in IDLE, and outside IDLE a reset or, with the command queue
\* full, the worker taking a command.  A condition on the state before the
\* step is looked at on these steps.
EveryStateStep == settings' # settings \/ ResetTimer \/ WorkerOnMessage

\* C18: the timer states (phase, total, cycleCount, currentIntervalElapsed)
\* a sequence of start, pause, resume, reset and tick events produces do not
\* depend on voice generation (idle, loading, ready, failed) or on the wake
\* lock (granted or not).  Every event is possible or not according to the
\* timer side alone, its outcome is a function of the timer state and the
\* event alone, a batch of voice generation settling changes nothing on the
\* timer side, and the phase is always one of IDLE, RUNNING, PAUSED.
C18_TimerIndependentOfCollaborators ==
    [][/\ EveryStateStep => TimerEventsNotBlocked
       /\ TickStep =>
             TimerState' = TimerAfterTick(TimerState, totalSecondsElapsed',
                                          intervalDuration)
       /\ IntervalFire => totalSecondsElapsed' = totalSecondsElapsed + 1
       /\ UiOnTick => totalSecondsElapsed' = Head(toUI).totalSecondsElapsed
       /\ WorkerIntervalFire =>
             /\ worker'.totalSecondsElapsed = worker.totalSecondsElapsed + 1
             /\ UNCHANGED TimerState
       /\ ToggleTimer =>
             TimerState' = [TimerState EXCEPT !.appState = Toggled(@)]
       /\ ResetTimer => TimerState' = AfterResetTimer(TimerState)
       /\ (StartSession \/ (AudioContextResumed /\ pendingStarts # <<>>)) =>
             TimerState' = [TimerState EXCEPT !.appState = "RUNNING"]
       /\ (\E failed \in FailureCases : AudioSettled(failed)) =>
             UNCHANGED <<TimerState, settings, workerVars, effectTimers>>
       /\ appState' \in {"IDLE", "RUNNING", "PAUSED"}]_vars

\* a boundary tick applied in a running session whose voice generation has
\* failed and whose wake lock was not granted
C18_Witness ==
    /\ BoundaryCuePlayed
    /\ appState = "RUNNING"
    /\ audioLoadingState = "failed"
    /\ audioAssets = NoAssets
    /\ ~wakeLockRef
    /\ wakeLockPending = 0
    /\ cycleCount = 2
    /\ totalSecondsElapsed = intervalDuration


\* what the cues `sounds` must have put out given the assets: the voice
\* asset when present, else the 'end' tone at threshold 0 and the 'tick'
\* tone at thresholds 5..1
FallbackTonesRight(sounds, assets) ==
    \A i \in 1..Len(sounds) :
        sounds[i].out =
            IF assets[sounds[i].label] THEN "voice"
            ELSE IF sounds[i].threshold = 0 THEN "end" ELSE "tick"

\* the builds whose threshold-0 cue goes through playGoSound
C19_InBuildsWithGoSound ==
    [][TickStep => FallbackTonesRight(played', audioAssets)]_vars

\* C19: on every tick, a cue whose voice asset is absent puts out the 'tick'
\* tone at thresholds 5..1 and the 'end' tone at threshold 0, and a cue whose
\* asset is present puts out the asset and no tone; in the builds modelled
\* and in the trigger block of the first App of App.tsx alike.
C19_FallbackTones ==
    [][TickStep =>
        /\ FallbackTonesRight(played', audioAssets)
        /\ FallbackTonesRight(
              AppTsxTriggers(TimeRemaining(totalSecondsElapsed', intervalDuration),
                             audioAssets),
              audioAssets)]_vars


\* a batch of six generateVoiceAsset calls is issued
BatchIssued == audioBatches' > audioBatches

\* C20: voice generation is requested once per label.  A step issues at
\* most one batch, only a start issues one, and it issues none while a
\* batch is still loading or after a batch succeeded (the first batch is
\* issued from 'idle', a later one only after a batch failed).
C20_OneBatchAtATime ==
    [][BatchIssued =>
          /\ StartSession \/ AudioContextResumed
          /\ audioBatches' = audioBatches + 1
          /\ audioBatches = 0
          /\ audioLoadingState \in {"idle", "failed"}
          /\ audioAssets = NoAssets]_vars


\* C21: every tick the UI applies raises totalSecondsElapsed by exactly 1,
\* so that the total never decreases and never skips a value (only a reset
\* takes it back to 0).
C21_TotalStepsByOne ==
    [][/\ TickStep => totalSecondsElapsed' = totalSecondsElapsed + 1
       /\ totalSecondsElapsed' # totalSecondsElapsed =>
             TickStep \/ (ResetTimer /\ totalSecondsElapsed' = 0)]_vars


\* a batch whose six calls all succeeded settles:
\* audioAssets.current = { five, four, three, two, one, next }
AssetsWritten == AudioSettled({})

\* C22: the six voice assets are written at most once: only a successful
\* load writes them, it finds them unpopulated, and no tick (nor any other
\* step) changes them, so every tick after population sees the same assets.
C22_AssetsWrittenOnce ==
    [][/\ audioAssets' # audioAssets => AssetsWritten
       /\ AssetsWritten => audioAssets = NoAssets
       /\ TickStep => UNCHANGED audioAssets]_vars


\* Start Workout takes effect: the phase goes from IDLE to RUNNING
SessionStarts == appState = "IDLE" /\ appState' = "RUNNING"

\* C23: in every RUNNING or PAUSED state with D >= 1 the time left
\* D - currentIntervalElapsed lies in 1..D (so the percentage
\* timeLeft / D * 100 lies in (0, 100]) and is never 0; it equals D when a
\* session starts and right after every boundary tick.
C23_TimeLeftInRange ==
    [][/\ (appState' \in {"RUNNING", "PAUSED"} /\ intervalDuration' >= 1) =>
             timeLeftInInterval' \in 1..intervalDuration'
       /\ (SessionStarts /\ intervalDuration >= 1) =>
             timeLeftInInterval' = intervalDuration
       /\ (TickStep /\ intervalDuration >= 1
             /\ appState \in {"RUNNING", "PAUSED"}
             /\ totalSecondsElapsed' % intervalDuration = 0) =>
             timeLeftInInterval' = intervalDuration]_vars


\* C24: in every reachable state with D >= 1, cycleCount is
\* 1 + floor(totalSecondsElapsed / D) and currentIntervalElapsed is
\* totalSecondsElapsed mod D.
C24_DerivedFromTotal ==
    intervalDuration >= 1 =>
        /\ cycleCount = 1 + (totalSecondsElapsed \div intervalDuration)
        /\ currentIntervalElapsed = totalSecondsElapsed % intervalDuration


\* no message is in flight between the UI thread and the worker
Quiescent == toWorker = <<>> /\ toUI = <<>>

\* C25: in the worker build, whenever no message is in flight, the UI's
\* totalSecondsElapsed equals the worker's and the phase is RUNNING exactly
\* when the worker's isRunning is true.
C25_UiMatchesWorker ==
    (version = "worker" /\ Quiescent) =>
        /\ totalSecondsElapsed = worker.totalSecondsElapsed
        /\ (appState = "RUNNING") = worker.isRunning


\* The session is RUNNING with D >= 1 and the boundary that ends the
\* current cycle lies within the MaxTotal ticks the timers are followed for.
RunningBeforeBoundary ==
    /\ appState = "RUNNING"
    /\ intervalDuration >= 1
    /\ cycleCount * intervalDuration <= MaxTotal

\* a tick that plays the boundary cue and raises the cycle counter
BoundaryTick ==
    /\ TickStep
    /\ BoundaryCuePlayed'
    /\ cycleCount' = cycleCount + 1

\* C26: with ticks delivered fairly, if the phase stays RUNNING with D >= 1
\* then the boundary cue fires and cycleCount increases infinitely often
\* (for as many intervals as fit in MaxTotal ticks).
C26_BoundaryRecurs ==
    <>[]RunningBeforeBoundary => []<><<BoundaryTick>>_vars

\* a running session that went through two boundaries and awaits a third
C26_Witness ==
    /\ appState = "RUNNING"
    /\ intervalDuration = 2
    /\ totalSecondsElapsed = 4
    /\ cycleCount = 3
    /\ BoundaryCuePlayed
    /\ RunningBeforeBoundary


\* The settings controls (wheel, presets) change the duration in this step.
DurationChanges == intervalDuration' # intervalDuration

\* the duration is frozen in the phases in which ticks are computed
DurationFixedInSession ==
    [][DurationChanges => appState = "IDLE" /\ appState' = "IDLE"]_vars

\* C27: the duration the tick computation uses changes only while the phase
\* is IDLE, with totalSecondsElapsed = 0 and cycleCount = 1, and never while
\* it is RUNNING or PAUSED.
C27_DurationChangesOnlyWhenReset ==
    [][DurationChanges =>
          /\ appState = "IDLE"
          /\ totalSecondsElapsed = 0
          /\ cycleCount = 1]_vars


\* A screen wake lock is held: the sentinel wakeLockRef.current names, or
\* one that was acquired and is no longer referenced.
SentinelAcquired == wakeLockRef \/ orphanedSentinel

\* C28: for every interleaving of the wake-lock request with pause and
\* reset, once the phase is not RUNNING and no request is pending, no
\* sentinel remains acquired.
C28_NoLockOutsideRunning ==
    (appState # "RUNNING" /\ wakeLockPending = 0) => ~SentinelAcquired


\* {timeLeftInInterval <= 5 && timeLeftInInterval > 0 && <span>Get Ready!</span>}
\* of the timer view (the IDLE view returns before it)
ShowsGetReady ==
    /\ appState # "IDLE"
    /\ timeLeftInInterval # NaN
    /\ timeLeftInInterval <= 5
    /\ timeLeftInInterval > 0

\* {timeLeftInInterval === intervalDuration && cycleCount > 1 && <span>GO!</span>}
ShowsGo ==
    /\ appState # "IDLE"
    /\ JsStrictEq(timeLeftInInterval, intervalDuration)
    /\ cycleCount > 1

\* the two texts exclude each other when the duration is above the
\* countdown window of 5 seconds
ExclusiveAboveWindow ==
    intervalDuration >= 6 => ~(ShowsGetReady /\ ShowsGo)

\* C29: for every duration D >= 1, 'Get Ready!' and 'GO!' are never shown
\* in the same state.
C29_StatusTextsExclusive ==
    intervalDuration >= 1 => ~(ShowsGetReady /\ ShowsGo)

====
